---- MODULE Spec2Model ----
(***************************************************************************)
(* BFF Fabric Flattener: BFFProcessor.run and BFFProcessor._convert_to_svg *)
(* (src/main.py).                                                          *)
(*                                                                         *)
(* Numbers.  Texture coordinates are fixed-point integers counting units   *)
(* of 1/Unit, so the real number 1.0 is the integer Unit.  Values derived  *)
(* from them (x, y, width, height) are numerators over the same Unit, and  *)
(* the arithmetic is exact.  The "{x:.2f}" formatting is modelled by what  *)
(* it does: it yields a whole number of hundredths (Fmt2).                 *)
(*                                                                         *)
(* Text.  A path is a sequence of tokens in which "." and "/" are tokens   *)
(* of their own.  A line of the mesh file is a record: its kind (the       *)
(* leading token) and its whitespace-separated fields.  A numeric field is *)
(* a token that float()/int() either accepts (t = "num", value n) or       *)
(* rejects (t = "bad"); a slash-delimited field may also be empty.         *)
(***************************************************************************)
EXTENDS Integers, Sequences, FiniteSets, TLC

VARIABLES
    pc,             \* position of run(): "start", "exited_ok", "converted", "done"
    bff_executable, \* self.bff_executable is not None
    export_svg,     \* options['export_svg']: "absent", "true" or "false"
    output_file,    \* self.output_file, the path handed to _convert_to_svg
    fs,             \* the file system: path -> file
    returncode,     \* outcome of subprocess.run: "none", "zero", "nonzero", "raised"
    progress,       \* the progress signal's emissions, in order
    finished,       \* the finished signal's emissions (the bool argument), in order
    convert_calls,  \* number of calls of _convert_to_svg
    conv,           \* how _convert_to_svg left: "none", "exported", "skipped", "warning"
    obj_before,     \* the file at obj_file when _convert_to_svg was entered
    vertices,       \* local 'vertices' when _convert_to_svg left
    faces,          \* local 'faces' when _convert_to_svg left
    face_polys,     \* per element of 'faces': the points list built for it, and whether a polygon was appended
    writes,         \* paths opened for writing, in order
    write_result    \* how writing svg_file ended: "none" (not reached), "ok", "open_fails", "write_fails"

vars == <<pc, bff_executable, export_svg, output_file, fs, returncode, progress,
          finished, convert_calls, conv, obj_before, vertices, faces, face_polys, writes,
          write_result>>

----------------------------------------------------------------------------
(* Bounds of the model *)

MaxLines == 4      \* longest mesh file of the free-form family
MaxVerts == 4      \* most vt lines of the vertices-then-one-face family
MaxRunLines == 1   \* longest mesh file the external tool leaves in a full run

----------------------------------------------------------------------------
(* Program constants *)

padding == 10
scale == 500

\* Fixed-point denominator: the real number 1.0.  One unit of a coordinate
\* moves a point by scale/Unit = 0.002, a fifth of the hundredth that
\* "{x:.2f}" keeps, so the formatting rounds both down and up.
Unit == scale * scale

----------------------------------------------------------------------------
(* Tokens, lines, files *)

Num(n) == [t |-> "num", n |-> n]
BadTok == [t |-> "bad", n |-> 0]
EmptyTok == [t |-> "empty", n |-> 0]

VtLine(fields) == [kind |-> "vt", nums |-> fields, corners |-> <<>>]
FLine(cs) == [kind |-> "f", nums |-> <<>>, corners |-> cs]
OtherLine == [kind |-> "other", nums |-> <<>>, corners |-> <<>>]

\* corner descriptors "p", "p/t", "p/t/n", "p//n"
C1f(p) == <<Num(p)>>
C2f(p, t) == <<Num(p), t>>
C3f(p, t, n) == <<Num(p), t, Num(n)>>

NoDoc == [width |-> 0, height |-> 0, polygons |-> <<>>]
NoFile == [kind |-> "none", lines |-> <<>>, doc |-> NoDoc]
ObjFile(ls) == [kind |-> "obj", lines |-> ls, doc |-> NoDoc]
SvgFile(d) == [kind |-> "svg", lines |-> <<>>, doc |-> d]
PartialFile == [kind |-> "partial", lines |-> <<>>, doc |-> NoDoc]

SeqsUpTo(S, n) == UNION {[1..k -> S] : k \in 0..n}

----------------------------------------------------------------------------
(* Paths: obj_file.rsplit('.', 1)[0] + '.svg' *)

DotPositions(p) == {i \in 1..Len(p) : p[i] = "."}

\* p.rsplit('.', 1)[0]: what precedes the last ".", or all of p when it has none
RsplitDotHead(p) ==
    IF DotPositions(p) = {} THEN p
    ELSE LET i == CHOOSE k \in DotPositions(p) : \A j \in DotPositions(p) : j <= k
         IN SubSeq(p, 1, i - 1)

SvgPathOf(p) == RsplitDotHead(p) \o <<".", "svg">>

----------------------------------------------------------------------------
(* Parsing *)

\* a parse that coerces an unparsable field to zero instead of raising
ParseNumber_m(tok) == [ok |-> TRUE, val |-> tok.n]

\* float(s) / int(s): the value, or ValueError
ParseNumber(tok) == [ok |-> tok.t = "num", val |-> tok.n]

\* line.startswith('vt '): u, v = float(parts[1]), float(parts[2])
\* (fields are numbered here from the one after the "vt" token)
ParseVt(line) ==
    IF Len(line.nums) < 2 THEN [ok |-> FALSE, vertex |-> <<0, 0>>]
    ELSE LET u == ParseNumber(line.nums[1])
             v == ParseNumber(line.nums[2])
         IN [ok |-> u.ok /\ v.ok, vertex |-> <<u.val, v.val>>]

\* the test without "and indices[1]": int('') then raises on "5//2"
HasTextureField_m(corner) == Len(corner) >= 2

\* indices = part.split('/'); len(indices) >= 2 and indices[1]
HasTextureField(corner) == Len(corner) >= 2 /\ corner[2].t # "empty"

\* the file's 1-based index stored as it is
TextureIndex_m(n) == n

\* vt_idx = int(indices[1]) - 1  # OBJ is 1-indexed
TextureIndex(n) == n - 1

\* the loop over the corners of one face line, from corner i on
RECURSIVE ParseCorners(_, _, _)
ParseCorners(corners, i, face_verts) ==
    IF i > Len(corners) THEN [ok |-> TRUE, face_verts |-> face_verts]
    ELSE IF HasTextureField(corners[i])
         THEN LET n == ParseNumber(corners[i][2])
              IN IF n.ok
                 THEN ParseCorners(corners, i + 1, Append(face_verts, TextureIndex(n.val)))
                 ELSE [ok |-> FALSE, face_verts |-> face_verts]
         ELSE ParseCorners(corners, i + 1, face_verts)

\* the loop over the lines of the file, from line i on; an exception leaves it
RECURSIVE ParseLines(_, _, _, _)
ParseLines(lines, i, vs, fcs) ==
    IF i > Len(lines) THEN [ok |-> TRUE, vertices |-> vs, faces |-> fcs]
    ELSE IF lines[i].kind = "vt"
         THEN LET r == ParseVt(lines[i])
              IN IF r.ok THEN ParseLines(lines, i + 1, Append(vs, r.vertex), fcs)
                 ELSE [ok |-> FALSE, vertices |-> vs, faces |-> fcs]
    ELSE IF lines[i].kind = "f"
         THEN LET r == ParseCorners(lines[i].corners, 1, <<>>)
              IN IF ~r.ok THEN [ok |-> FALSE, vertices |-> vs, faces |-> fcs]
                 ELSE IF r.face_verts # <<>>
                      THEN ParseLines(lines, i + 1, vs, Append(fcs, r.face_verts))
                      ELSE ParseLines(lines, i + 1, vs, fcs)
    ELSE ParseLines(lines, i + 1, vs, fcs)

----------------------------------------------------------------------------
(* Bounds, transform, emission *)

MinOf(S) == CHOOSE m \in S : \A e \in S : m <= e
MaxOf(S) == CHOOSE m \in S : \A e \in S : e <= m

Us(vs) == {vs[k][1] : k \in 1..Len(vs)}
Vs(vs) == {vs[k][2] : k \in 1..Len(vs)}

\* numerators over Unit
CanvasWidth(vs) == (MaxOf(Us(vs)) - MinOf(Us(vs))) * scale + 2 * padding * Unit
CanvasHeight(vs) == (MaxOf(Vs(vs)) - MinOf(Vs(vs))) * scale + 2 * padding * Unit

\* x without the shift by min_u
XOf_m(vs, u) == u * scale + padding * Unit

\* x = (u - min_u) * scale + padding
XOf(vs, u) == (u - MinOf(Us(vs))) * scale + padding * Unit

\* y without the flip of the v axis
YOf_m(vs, v) == (v - MinOf(Vs(vs))) * scale + padding * Unit

\* y = (max_v - v) * scale + padding  # Flip V
YOf(vs, v) == (MaxOf(Vs(vs)) - v) * scale + padding * Unit

\* numerator units in one hundredth
Hundredth == Unit \div 100

\* f"{x:.2f}" for a numerator x >= 0 over Unit: the nearest number of
\* hundredths, a tie going to the even one
Fmt2(x) ==
    LET q == x \div Hundredth
        r == x % Hundredth
    IN IF 2 * r > Hundredth THEN q + 1
       ELSE IF 2 * r < Hundredth THEN q
       ELSE IF q % 2 = 0 THEN q ELSE q + 1

\* the test without "0 <=": a negative index then counts from the end
ValidIndex_m(idx, vs) == idx < Len(vs)

\* 0 <= idx < len(vertices)
ValidIndex(idx, vs) == 0 <= idx /\ idx < Len(vs)

\* vertices[idx], a negative idx counting from the end as Python's does
VertexAt(vs, idx) == IF idx >= 0 THEN vs[idx + 1] ELSE vs[Len(vs) + idx + 1]

\* the point appended for vertex (u, v): f"{x:.2f},{y:.2f}"
PointOf(vs, uv) == <<Fmt2(XOf(vs, uv[1])), Fmt2(YOf(vs, uv[2]))>>

\* for idx in face: if 0 <= idx < len(vertices): points.append(...)
RECURSIVE FacePoints(_, _, _)
FacePoints(face, i, vs) ==
    IF i > Len(face) THEN <<>>
    ELSE LET idx == face[i]
             rest == FacePoints(face, i + 1, vs)
         IN IF ValidIndex(idx, vs)
            THEN <<PointOf(vs, VertexAt(vs, idx))>> \o rest
            ELSE rest

\* if len(face) < 3: continue
SkippedFace(face) == Len(face) < 3

\* one turn of "for face in faces": the points and whether a polygon is appended
FacePolygon(face, vs) ==
    IF SkippedFace(face) THEN [emitted |-> FALSE, points |-> <<>>]
    ELSE LET pts == FacePoints(face, 1, vs)
         IN [emitted |-> pts # <<>>, points |-> pts]

FacePolygons(fcs, vs) == [k \in 1..Len(fcs) |-> FacePolygon(fcs[k], vs)]

RECURSIVE EmittedPoints(_, _)
EmittedPoints(polys, i) ==
    IF i > Len(polys) THEN <<>>
    ELSE IF polys[i].emitted THEN <<polys[i].points>> \o EmittedPoints(polys, i + 1)
         ELSE EmittedPoints(polys, i + 1)

\* svg_content
SvgContent(vs, fcs) ==
    [width |-> CanvasWidth(vs), height |-> CanvasHeight(vs),
     polygons |-> EmittedPoints(FacePolygons(fcs, vs), 1)]

----------------------------------------------------------------------------
(* Inputs *)

\* paths the user can choose as output file
Paths ==
    { <<"m", ".", "obj">>,               \* m.obj
      <<"m", ".", "svg">>,               \* m.svg
      <<"m">>,                           \* m
      <<"m", ".", "t", ".", "obj">>,     \* m.t.obj
      <<"d", ".", "v", "/", "m">> }      \* d.v/m

FsPaths == Paths \cup {SvgPathOf(p) : p \in Paths}

\* lines of the free-form family
FreeLines ==
    { VtLine(<<Num(0), Num(0)>>),                      \* vt 0.0 0.0
      VtLine(<<Num(3), Num(Unit)>>),                   \* vt 0.000012 1.0
      VtLine(<<Num(Unit), BadTok>>),                   \* vt 1.0 abc
      VtLine(<<Num(0)>>),                              \* vt 0.0
      FLine(<<C3f(1, Num(1), 1), C2f(2, Num(2)), C3f(3, Num(1), 1)>>),
                                                       \* f 1/1/1 2/2 3/1/1
      FLine(<<C3f(5, Num(3), 2), C1f(5), C3f(5, EmptyTok, 2), C2f(1, Num(1)), C2f(2, Num(0))>>),
                                                       \* f 5/3/2 5 5//2 1/1 2/0
      FLine(<<C2f(1, Num(1)), C2f(2, BadTok)>>),       \* f 1/1 2/x
      OtherLine }                                      \* v 0 0 0, # comment, ...

\* the vertices-then-one-face family
GeomVts ==
    { VtLine(<<Num(0), Num(0)>>),                      \* vt 0.0 0.0
      VtLine(<<Num(Unit), Num(0)>>),                   \* vt 1.0 0.0
      VtLine(<<Num(Unit), Num(Unit)>>),                \* vt 1.0 1.0
      VtLine(<<Num(0), Num(Unit)>>),                   \* vt 0.0 1.0
      VtLine(<<Num(3), Num(Unit - 2)>>) }              \* vt 0.000012 0.999992
GeomFaces ==
    { FLine(<<C2f(1, Num(1)), C2f(2, Num(2)), C2f(3, Num(3)), C2f(4, Num(4))>>),
                                                       \* f 1/1 2/2 3/3 4/4
      FLine(<<C3f(3, Num(3), 3), C3f(2, Num(2), 2), C3f(1, Num(1), 1)>>) }
                                                       \* f 3/3/3 2/2/2 1/1/1

FreeMeshes == SeqsUpTo(FreeLines, MaxLines)
GeomMeshes == {vts \o <<f>> : vts \in SeqsUpTo(GeomVts, MaxVerts), f \in GeomFaces}
Meshes == FreeMeshes \cup GeomMeshes

\* what the external tool may leave at the output path
RunMeshes == SeqsUpTo(FreeLines, MaxRunLines)

Exports == {"absent", "true", "false"}
WriteOutcomes == {"ok", "open_fails", "write_fails"}

----------------------------------------------------------------------------
(* BFFProcessor.run *)

Init ==
    /\ pc = "start"
    /\ bff_executable \in BOOLEAN
    /\ export_svg \in Exports
    /\ output_file \in Paths
    /\ fs = [p \in FsPaths |-> NoFile]
    /\ returncode = "none"
    /\ progress = <<>>
    /\ finished = <<>>
    /\ convert_calls = 0
    /\ conv = "none"
    /\ obj_before = NoFile
    /\ vertices = <<>>
    /\ faces = <<>>
    /\ face_polys = <<>>
    /\ writes = <<>>
    /\ write_result = "none"

convVars == <<convert_calls, conv, obj_before, vertices, faces, face_polys, writes,
              write_result>>

\* if not self.bff_executable: finished.emit(False, ...); return
ExeMissing ==
    /\ pc = "start"
    /\ ~bff_executable
    /\ finished' = Append(finished, FALSE)
    /\ pc' = "done"
    /\ UNCHANGED <<bff_executable, export_svg, output_file, fs, returncode, progress>>
    /\ UNCHANGED convVars

\* subprocess.run raises (the except branch of run)
LaunchRaises ==
    /\ pc = "start"
    /\ bff_executable
    /\ returncode' = "raised"
    /\ progress' = progress \o <<"running", "error">>
    /\ finished' = Append(finished, FALSE)
    /\ pc' = "done"
    /\ UNCHANGED <<bff_executable, export_svg, output_file, fs>>
    /\ UNCHANGED convVars

\* the process exits with returncode != 0
ProcessFails ==
    /\ pc = "start"
    /\ bff_executable
    /\ returncode' = "nonzero"
    /\ progress' = progress \o <<"running", "bff_failed">>
    /\ finished' = Append(finished, FALSE)
    /\ pc' = "done"
    /\ UNCHANGED <<bff_executable, export_svg, output_file, fs>>
    /\ UNCHANGED convVars

\* the process exits with returncode == 0, having left a mesh at output_file or not
ProcessSucceeds ==
    /\ pc = "start"
    /\ bff_executable
    /\ returncode' = "zero"
    /\ progress' = progress \o <<"running", "bff_ok">>
    /\ \/ \E m \in RunMeshes : fs' = [fs EXCEPT ![output_file] = ObjFile(m)]
       \/ fs' = fs
    /\ pc' = "exited_ok"
    /\ UNCHANGED <<bff_executable, export_svg, output_file, finished>>
    /\ UNCHANGED convVars

\* the conversion called whatever the option says
ExportRequested_m == TRUE

\* self.options.get('export_svg', True)
ExportRequested == export_svg # "false"

----------------------------------------------------------------------------
(* BFFProcessor._convert_to_svg *)

\* What one call does to a file system f when called with obj_file, the write
\* ending as w.
ConvertOutcome(f, obj_file, w) ==
    LET svg_file == SvgPathOf(obj_file)
        parsed == ParseLines(f[obj_file].lines, 1, <<>>, <<>>)
        polys == FacePolygons(parsed.faces, parsed.vertices)
        base == [conv |-> "warning", progress |-> <<"converting", "svg_warning">>,
                 fs |-> f, vertices |-> <<>>, faces |-> <<>>, face_polys |-> <<>>,
                 writes |-> <<>>, write_result |-> "none"]
    IN IF f[obj_file].kind = "none"
       THEN base                                   \* open(obj_file, 'r') raises
       ELSE IF ~parsed.ok
       THEN [base EXCEPT !.vertices = parsed.vertices, !.faces = parsed.faces]
       ELSE IF parsed.vertices = <<>>
       THEN [base EXCEPT !.conv = "skipped",
                         !.progress = <<"converting", "no_texcoords">>,
                         !.faces = parsed.faces]
       ELSE LET seen == [base EXCEPT !.vertices = parsed.vertices,
                                     !.faces = parsed.faces, !.face_polys = polys,
                                     !.write_result = w]
            IN IF w = "open_fails" THEN seen       \* open(svg_file, 'w') raises
               ELSE IF w = "write_fails"           \* f.write raises: the file is left truncated
               THEN [seen EXCEPT !.fs = [f EXCEPT ![svg_file] = PartialFile],
                                 !.writes = <<svg_file>>]
               ELSE [seen EXCEPT !.conv = "exported",
                                 !.progress = <<"converting", "svg_exported">>,
                                 !.fs = [f EXCEPT ![svg_file] =
                                            SvgFile(SvgContent(parsed.vertices, parsed.faces))],
                                 !.writes = <<svg_file>>]

\* if self.options.get('export_svg', True): self._convert_to_svg(self.output_file)
ConvertToSvg ==
    /\ pc = "exited_ok"
    /\ ExportRequested
    /\ \E w \in WriteOutcomes :
        LET r == ConvertOutcome(fs, output_file, w)
        IN /\ conv' = r.conv
           /\ progress' = progress \o r.progress
           /\ fs' = r.fs
           /\ vertices' = r.vertices
           /\ faces' = r.faces
           /\ face_polys' = r.face_polys
           /\ writes' = writes \o r.writes
           /\ write_result' = r.write_result
    /\ obj_before' = fs[output_file]
    /\ convert_calls' = convert_calls + 1
    /\ pc' = "converted"
    /\ UNCHANGED <<bff_executable, export_svg, output_file, returncode, finished>>

\* export_svg is False: the call is skipped
SkipConvert ==
    /\ pc = "exited_ok"
    /\ ~ExportRequested
    /\ pc' = "converted"
    /\ UNCHANGED <<bff_executable, export_svg, output_file, fs, returncode, progress, finished>>
    /\ UNCHANGED convVars

\* a conversion whose exception reaches run's except branch: finished(False, ...)
EmitFinished_m ==
    /\ pc = "converted"
    /\ finished' = Append(finished, conv # "warning")
    /\ pc' = "done"
    /\ UNCHANGED <<bff_executable, export_svg, output_file, fs, returncode, progress>>
    /\ UNCHANGED convVars

\* self.finished.emit(True, "Processing completed successfully!")
EmitFinished ==
    /\ pc = "converted"
    /\ finished' = Append(finished, TRUE)
    /\ pc' = "done"
    /\ UNCHANGED <<bff_executable, export_svg, output_file, fs, returncode, progress>>
    /\ UNCHANGED convVars

Next ==
    \/ ExeMissing
    \/ LaunchRaises
    \/ ProcessFails
    \/ ProcessSucceeds
    \/ ConvertToSvg
    \/ SkipConvert
    \/ EmitFinished

Spec == Init /\ [][Next]_vars

----------------------------------------------------------------------------
(* _convert_to_svg on its own: every mesh of the bounded families *)

ObjPath == <<"m", ".", "obj">>

InitConv ==
    /\ pc = "exited_ok"
    /\ bff_executable = TRUE
    /\ export_svg = "true"
    /\ output_file = ObjPath
    /\ \/ \E m \in Meshes : fs = [p \in FsPaths |-> IF p = ObjPath THEN ObjFile(m) ELSE NoFile]
       \/ fs = [p \in FsPaths |-> NoFile]
    /\ returncode = "zero"
    /\ progress = <<"running", "bff_ok">>
    /\ finished = <<>>
    /\ convert_calls = 0
    /\ conv = "none"
    /\ obj_before = NoFile
    /\ vertices = <<>>
    /\ faces = <<>>
    /\ face_polys = <<>>
    /\ writes = <<>>
    /\ write_result = "none"

NextConv == ConvertToSvg

SpecConv == InitConv /\ [][NextConv]_vars

----------------------------------------------------------------------------
(* Vocabulary of the properties *)

\* _convert_to_svg has returned
Returned == conv # "none"

\* the mesh file the call read
Mesh == obj_before.lines
MeshRead == Returned /\ obj_before.kind = "obj"

\* the file at the output path of the call
SvgFileNow == fs[SvgPathOf(output_file)]

LastProgress == IF progress = <<>> THEN "" ELSE progress[Len(progress)]

\* a vt line one of whose two numeric fields is malformed
MalformedVtLine(line) ==
    /\ line.kind = "vt"
    /\ \E j \in 1..2 : j <= Len(line.nums) /\ line.nums[j].t = "bad"

\* a vt line that yields a vertex
GoodVtLine(line) ==
    /\ line.kind = "vt"
    /\ Len(line.nums) >= 2
    /\ line.nums[1].t = "num" /\ line.nums[2].t = "num"

\* positions of the corners of a face line that carry a texture-index field
WithTexture(corners) ==
    {i \in 1..Len(corners) : Len(corners[i]) >= 2 /\ corners[i][2].t # "empty"}

\* every texture-index field of a face line parses as an integer
FaceLineParses(line) ==
    \A i \in WithTexture(line.corners) : line.corners[i][2].t = "num"

NoVtLines(lines) == \A i \in 1..Len(lines) : lines[i].kind # "vt"
FaceFieldsParse(lines) ==
    \A i \in 1..Len(lines) : lines[i].kind = "f" => FaceLineParses(lines[i])
VtFieldsParse(lines) ==
    \A i \in 1..Len(lines) : lines[i].kind = "vt" => GoodVtLine(lines[i])

\* indices of a stored face that lie in 0 <= idx < len(vertices)
ValidPositions(face) == {i \in 1..Len(face) : 0 <= face[i] /\ face[i] < Len(vertices)}

----------------------------------------------------------------------------
(* C1 *)

\* C1: with a non-empty vertex set, a polygon element is emitted for a face
\* only if at least 3 of the face's texture indices lie in
\* 0 <= idx < len(vertices).
C1_PolygonNeedsThreeValid ==
    (Returned /\ vertices # <<>>) =>
        \A k \in DOMAIN face_polys :
            face_polys[k].emitted => Cardinality(ValidPositions(faces[k])) >= 3

----------------------------------------------------------------------------
(* C2 *)

\* C2: the conversion never mutates the input mesh file (its content after the
\* call is its content before it), and on success it has written exactly one file.
C2_InputMeshUntouched ==
    Returned =>
        /\ fs[output_file] = obj_before
        /\ conv = "exported" => Len(writes) = 1

----------------------------------------------------------------------------
(* C3 *)

\* C3: a malformed numeric field on a vt line, wherever the line stands in the
\* file, makes the conversion end with the warning status and write no output file.
C3_MalformedVtFails ==
    (MeshRead /\ \E i \in 1..Len(Mesh) : MalformedVtLine(Mesh[i])) =>
        /\ conv = "warning"
        /\ LastProgress = "svg_warning"
        /\ writes = <<>>
        /\ SvgFileNow = NoFile

\* the malformed vt line stands between a vt line that parses and a face line
C3_Witness ==
    /\ MeshRead
    /\ Len(Mesh) = 3
    /\ GoodVtLine(Mesh[1])
    /\ MalformedVtLine(Mesh[2])
    /\ Mesh[3].kind = "f"
    /\ conv = "warning"

----------------------------------------------------------------------------
(* C4 *)

\* C4 as claimed: for any mesh with zero vt lines, whatever its face lines and
\* other lines, the conversion writes no document and ends with the
\* "no texture coordinates" status, which is not the warning status.
C4_ZeroVtSkips ==
    (MeshRead /\ NoVtLines(Mesh)) =>
        /\ conv = "skipped"
        /\ LastProgress = "no_texcoords"
        /\ writes = <<>>
        /\ SvgFileNow = NoFile

\* C4 as amended: for any mesh with zero vt lines whose face lines' texture-index
\* fields all parse as integers, the conversion writes no document and ends with
\* the "no texture coordinates" status, which is not the warning status.
C4_ZeroVtSkipsWhenFacesParse ==
    (MeshRead /\ NoVtLines(Mesh) /\ FaceFieldsParse(Mesh)) =>
        /\ conv = "skipped"
        /\ LastProgress = "no_texcoords"
        /\ writes = <<>>
        /\ SvgFileNow = NoFile

\* a mesh of face lines and other lines only was skipped
C4_Witness ==
    /\ MeshRead
    /\ NoVtLines(Mesh)
    /\ \E i \in 1..Len(Mesh) : Mesh[i].kind = "f" /\ WithTexture(Mesh[i].corners) # {}
    /\ \E i \in 1..Len(Mesh) : Mesh[i].kind = "other"
    /\ conv = "skipped"

----------------------------------------------------------------------------
(* C5 *)

\* the document the call wrote
Doc == SvgFileNow.doc

\* the emitted points, as pairs of hundredths
DocPoints ==
    UNION {{Doc.polygons[p][i] : i \in 1..Len(Doc.polygons[p])} : p \in 1..Len(Doc.polygons)}

\* C5 as claimed: every emitted point (x, y) has padding <= x <= width - padding
\* and padding <= y <= height - padding, width and height being the document's.
C5_PointsInsideCanvas ==
    conv = "exported" =>
        \A pt \in DocPoints :
            /\ padding * 100 <= pt[1]
            /\ pt[1] * Hundredth <= Doc.width - padding * Unit
            /\ padding * 100 <= pt[2]
            /\ pt[2] * Hundredth <= Doc.height - padding * Unit

\* C5 as amended: every emitted point (x, y) has padding <= x and padding <= y,
\* and exceeds width - padding and height - padding by no more than the 0.005
\* that rounding to two decimals can add.
C5_PointsInsideCanvasRounded ==
    conv = "exported" =>
        \A pt \in DocPoints :
            /\ padding * 100 <= pt[1]
            /\ 2 * pt[1] * Hundredth <= 2 * (Doc.width - padding * Unit) + Hundredth
            /\ padding * 100 <= pt[2]
            /\ 2 * pt[2] * Hundredth <= 2 * (Doc.height - padding * Unit) + Hundredth

\* a point was emitted whose two-decimal x lies beyond width - padding
C5_Witness ==
    /\ conv = "exported"
    /\ \E pt \in DocPoints : pt[1] * Hundredth > Doc.width - padding * Unit

----------------------------------------------------------------------------
(* C6 *)

Abs(n) == IF n < 0 THEN -n ELSE n

\* hundredths h are the two-decimal rendering of the numerator x
Renders(h, x) == 2 * Abs(h * Hundredth - x) <= Hundredth

UnitSquare == << <<0, 0>>, <<Unit, 0>>, <<Unit, Unit>>, <<0, Unit>> >>

\* C6: width = (max_u - min_u) * 500 + 20, height = (max_v - min_v) * 500 + 20,
\* and vertex (u, v) is drawn at x = (u - min_u) * 500 + 10,
\* y = (max_v - v) * 500 + 10; the unit square with one face over its four
\* vertices gives a 520 x 520 canvas and one polygon of 4 points.
C6_CanvasAndTransform ==
    conv = "exported" =>
        /\ \E minu, maxu \in Us(vertices) : \E minv, maxv \in Vs(vertices) :
            /\ \A k \in 1..Len(vertices) :
                /\ minu <= vertices[k][1] /\ vertices[k][1] <= maxu
                /\ minv <= vertices[k][2] /\ vertices[k][2] <= maxv
            /\ Doc.width = (maxu - minu) * 500 + 20 * Unit
            /\ Doc.height = (maxv - minv) * 500 + 20 * Unit
            /\ \A k \in DOMAIN faces :
                (face_polys[k].emitted /\ ValidPositions(faces[k]) = 1..Len(faces[k])) =>
                    /\ Len(face_polys[k].points) = Len(faces[k])
                    /\ \A i \in 1..Len(faces[k]) :
                        LET uv == vertices[faces[k][i] + 1]
                            pt == face_polys[k].points[i]
                        IN /\ Renders(pt[1], (uv[1] - minu) * 500 + 10 * Unit)
                           /\ Renders(pt[2], (maxv - uv[2]) * 500 + 10 * Unit)
        /\ (vertices = UnitSquare /\ faces = << <<0, 1, 2, 3>> >>) =>
            /\ Doc.width = 520 * Unit
            /\ Doc.height = 520 * Unit
            /\ Doc.polygons =
                 << << <<1000, 51000>>, <<51000, 51000>>, <<51000, 1000>>, <<1000, 1000>> >> >>

\* the unit square with one face over its four vertices was exported
C6_Witness ==
    /\ conv = "exported"
    /\ vertices = UnitSquare
    /\ faces = << <<0, 1, 2, 3>> >>
    /\ Len(Doc.polygons) = 1

----------------------------------------------------------------------------
(* C7 *)

\* the j-th smallest element of a set of positions
Nth(S, j) == CHOOSE i \in S : Cardinality({k \in S : k <= i}) = j

\* face lines that keep at least one corner
KeptFaceLines(lines) ==
    {i \in 1..Len(lines) : lines[i].kind = "f" /\ WithTexture(lines[i].corners) # {}}

\* C7: a corner contributes an index iff its texture-index field is present and
\* non-empty; the stored index is the file's value minus one; the retained
\* indices keep the corner order of the line.
C7_FaceIndices ==
    (MeshRead /\ VtFieldsParse(Mesh) /\ FaceFieldsParse(Mesh)) =>
        /\ Len(faces) = Cardinality(KeptFaceLines(Mesh))
        /\ \A j \in 1..Len(faces) :
            LET cs == Mesh[Nth(KeptFaceLines(Mesh), j)].corners
            IN /\ Len(faces[j]) = Cardinality(WithTexture(cs))
               /\ \A m \in 1..Len(faces[j]) :
                    faces[j][m] = cs[Nth(WithTexture(cs), m)][2].n - 1

\* "f 5/3/2 5 5//2 1/1 2/0" was parsed: 5/3/2 gave 2, "5" and "5//2" gave nothing
C7_Witness ==
    /\ MeshRead
    /\ conv \in {"exported", "skipped"}
    /\ \E i \in 1..Len(Mesh) :
        /\ Mesh[i].kind = "f"
        /\ Len(Mesh[i].corners) = 5
        /\ Mesh[i].corners[1] = C3f(5, Num(3), 2)
    /\ \E k \in DOMAIN faces : faces[k] = <<2, 0, -1>>

----------------------------------------------------------------------------
(* C8 *)

AllParses(lines) ==
    /\ \E i \in 1..Len(lines) : lines[i].kind = "vt"
    /\ VtFieldsParse(lines)
    /\ FaceFieldsParse(lines)

\* an index out of range contributes no point, and a face with at least 3 valid
\* indices has its polygon
PolygonsSurvive ==
    /\ Len(face_polys) = Len(faces)
    /\ \A k \in DOMAIN faces :
        /\ face_polys[k].emitted =>
             Len(face_polys[k].points) = Cardinality(ValidPositions(faces[k]))
        /\ Cardinality(ValidPositions(faces[k])) >= 3 => face_polys[k].emitted

EmittedFaces == {k \in DOMAIN face_polys : face_polys[k].emitted}

\* C8 as claimed: whenever the vertex set is non-empty and every numeric field
\* parses, the document is written, an index out of range contributes no point
\* and every face with at least 3 valid indices has its polygon.
C8_BadIndexNeverAborts ==
    (MeshRead /\ AllParses(Mesh)) =>
        /\ conv = "exported"
        /\ SvgFileNow.kind = "svg"
        /\ PolygonsSurvive
        /\ Len(Doc.polygons) = Cardinality(EmittedFaces)

\* C8 as amended: whenever the vertex set is non-empty and every numeric field
\* parses, the conversion reaches the write of the document, an index out of
\* range contributes no point and every face with at least 3 valid indices has
\* its polygon; the document is written unless opening or writing the output
\* file itself fails.
C8_BadIndexNeverAbortsBeforeWrite ==
    (MeshRead /\ AllParses(Mesh)) =>
        /\ write_result # "none"
        /\ PolygonsSurvive
        /\ write_result = "ok" =>
            /\ conv = "exported"
            /\ SvgFileNow.kind = "svg"
            /\ Len(Doc.polygons) = Cardinality(EmittedFaces)

\* a document was written for a mesh with one face holding indices out of range
\* (one of them negative) and another face with 3 valid indices
C8_Witness ==
    /\ conv = "exported"
    /\ \E k1, k2 \in DOMAIN faces :
        /\ \E i \in 1..Len(faces[k1]) : faces[k1][i] < 0
        /\ \E i \in 1..Len(faces[k1]) : faces[k1][i] >= Len(vertices)
        /\ Cardinality(ValidPositions(faces[k2])) >= 3
        /\ face_polys[k2].emitted

----------------------------------------------------------------------------
(* C9 *)

\* C9: within one run the conversion is called at most once, and only when the
\* executable was found, the process exited with return code 0 and export_svg
\* is not disabled.
C9_ConvertOnceAfterSuccess ==
    /\ convert_calls <= 1
    /\ convert_calls >= 1 =>
        /\ bff_executable
        /\ returncode = "zero"
        /\ export_svg # "false"
    /\ (~bff_executable \/ returncode \in {"nonzero", "raised"}) => conv = "none"

\* a run that called the conversion has ended
C9_Witness ==
    /\ pc = "done"
    /\ convert_calls = 1
    /\ returncode = "zero"

----------------------------------------------------------------------------
(* C10 *)

\* C10: the finished signal is emitted exactly once per run, as the run's last
\* step on every path, and after return code 0 it is finished(True, ...) whatever
\* the conversion did.
C10_FinishedExactlyOnce ==
    /\ pc # "done" => (finished = <<>> /\ ENABLED Next)
    /\ pc = "done" => Len(finished) = 1
    /\ (pc = "done" /\ returncode = "zero") => finished = <<TRUE>>
    /\ (pc = "done" /\ returncode # "zero") => finished = <<FALSE>>

\* finished(True) after a conversion that ended with the warning status
C10_Witness ==
    /\ pc = "done"
    /\ conv = "warning"
    /\ write_result = "write_fails"
    /\ finished = <<TRUE>>

====
